---- MODULE Spec2Model ----
(***************************************************************************)
(* Model of lib/routes/syosetu/search.ts (the Syosetu search route) and of *)
(* the pixiv user-novels handler that follows it in the same file.         *)
(*                                                                         *)
(* Strings are sequences of tokens; a token stands for a piece of text     *)
(* that the code never looks inside.  "=" and "&" are the two characters   *)
(* queryString.parse splits on, SEP is the literal text the handler puts   *)
(* between sub and query when it builds searchUrl.  Concatenation of       *)
(* strings is concatenation of sequences.                                  *)
(*                                                                         *)
(* JavaScript values that are not strings are the one-token sequences      *)
(* Undefined and Null, whose tokens occur in no input.                     *)
(***************************************************************************)
EXTENDS Integers, Sequences, FiniteSets, TLC

\* ------------------------------------------------------------------ bounds
MaxFields == 2      \* fields in a query string of the mapping specification
MaxCalls == 2       \* search requests served in one run
MaxTime == 2        \* clock ticks in one run
TTL == 1            \* lifetime of a cache entry, in ticks
MaxNovels == 3      \* novels in one listing

\* ------------------------------------------------------- values and strings
Undefined == <<"#undefined">>
Null == <<"#null">>
EmptyStr == <<>>

\* JavaScript truthiness of a value that is undefined, null or a string
Truthy(v) == v # Undefined /\ v # Null /\ v # EmptyStr

\* a || '' inside a template literal
OrEmpty(v) == IF Truthy(v) THEN v ELSE EmptyStr

IndexOf(s, d) ==
    IF \E i \in 1..Len(s) : s[i] = d
    THEN CHOOSE i \in 1..Len(s) : s[i] = d /\ \A j \in 1..(i - 1) : s[j] # d
    ELSE 0

RECURSIVE SplitOn(_, _)
SplitOn(s, d) ==
    LET i == IndexOf(s, d)
    IN  IF i = 0 THEN <<s>>
        ELSE <<SubSeq(s, 1, i - 1)>> \o SplitOn(SubSeq(s, i + 1, Len(s)), d)

\* query-string's parse, default options: split on "&", drop empty
\* parameters, split each at its first "="; a parameter without "=" has the
\* value null.  The result is the sequence of <<key, value>> pairs.
ParsePair(seg) ==
    LET i == IndexOf(seg, "=")
    IN  IF i = 0 THEN <<seg, Null>>
        ELSE <<SubSeq(seg, 1, i - 1), SubSeq(seg, i + 1, Len(seg))>>

QueryStringParse(query) ==
    LET segs == SelectSeq(SplitOn(query, "&"), LAMBDA g : g # EmptyStr)
    IN  [i \in 1..Len(segs) |-> ParsePair(segs[i])]

\* params.k of the parsed object: undefined when the key is absent.  The
\* declared type NarouSearchParams has scalar fields only, so a key occurs at
\* most once in the inputs; the first occurrence is read.
ParamGet(params, k) ==
    IF \E i \in 1..Len(params) : params[i][1] = <<k>>
    THEN params[CHOOSE i \in 1..Len(params) :
                    params[i][1] = <<k>> /\ \A j \in 1..(i - 1) : params[j][1] # <<k>>][2]
    ELSE Undefined

\* ------------------------------------------------------- mapToSearchParams
DirectFields ==
    {"word", "notword", "title", "ex", "keyword", "wname", "sasie",
     "iszankoku", "isbl", "isgl", "istensei", "istenni", "stop",
     "notzankoku", "notbl", "notgl", "nottensei", "nottenni", "minlen",
     "maxlen", "type", "order", "genre", "nocgenre"}

SearchParamFields == DirectFields \cup {"gzip", "lim", "time"}

\* const setIfExists = (value) => value ?? undefined
setIfExists(value) == IF value = Undefined \/ value = Null THEN Undefined ELSE value

mapToSearchParams(query) ==
    LET params == QueryStringParse(query)
        mintime == ParamGet(params, "mintime")
        maxtime == ParamGet(params, "maxtime")
    IN  [f \in SearchParamFields |->
            CASE f = "gzip" -> <<"5">>
              [] f = "lim" -> <<"40">>
              [] f = "time" ->
                    IF Truthy(mintime) \/ Truthy(maxtime)
                    THEN OrEmpty(mintime) \o <<"-">> \o OrEmpty(maxtime)
                    ELSE Undefined
              [] OTHER -> setIfExists(ParamGet(params, f))]

\* -------------------------------------------------- createNovelSearchBuilder
SyosetuSub_NORMAL == <<"yomou">>
SyosetuSub_NOCTURNE == <<"noc">>
SyosetuSub_MOONLIGHT == <<"mnlt">>
SyosetuSub_MIDNIGHT == <<"mid">>
SyosetuSubs == {SyosetuSub_NORMAL, SyosetuSub_NOCTURNE, SyosetuSub_MOONLIGHT, SyosetuSub_MIDNIGHT}

\* narou's enum R18Site, as it is written in a query string
R18Site_Nocturne == <<"1">>
R18Site_MoonLight == <<"2">>
R18Site_MoonLightBL == <<"3">>
R18Site_Midnight == <<"4">>

isGeneral(sub) == sub = SyosetuSub_NORMAL

\* The result is the builder (or the error thrown) together with the caller's
\* searchParams object as it is after the call.
createNovelSearchBuilder(sub, searchParams) ==
    IF isGeneral(sub)
    THEN [kind |-> "SearchBuilder", params |-> searchParams, caller |-> searchParams]
    ELSE LET r18Params == searchParams
         IN  CASE sub = SyosetuSub_NOCTURNE ->
                    [kind |-> "SearchBuilderR18",
                     params |-> [r18Params EXCEPT !["nocgenre"] = R18Site_Nocturne],
                     caller |-> searchParams]
               [] sub = SyosetuSub_MOONLIGHT ->
                    [kind |-> "SearchBuilderR18",
                     params |-> IF ~Truthy(r18Params["nocgenre"])
                                THEN [r18Params EXCEPT !["nocgenre"] =
                                        R18Site_MoonLight \o <<"-">> \o R18Site_MoonLightBL]
                                ELSE r18Params,
                     caller |-> searchParams]
               [] sub = SyosetuSub_MIDNIGHT ->
                    [kind |-> "SearchBuilderR18",
                     params |-> [r18Params EXCEPT !["nocgenre"] = R18Site_Midnight],
                     caller |-> searchParams]
               [] OTHER ->
                    [kind |-> "InvalidParameterError", params |-> searchParams,
                     caller |-> searchParams]

\* ------------------------------------------------------------- feed title
\* searchTerms.join(' ') behind 'Syosetu Search: ', or the bare fallback
FeedTitleWordOnly(searchParams) ==
    IF Truthy(searchParams["word"])
    THEN <<"Syosetu Search: ">> \o searchParams["word"]
    ELSE <<"Syosetu Search">>

FeedTitle(searchParams) ==
    LET w == IF Truthy(searchParams["word"]) THEN <<searchParams["word"]>> ELSE <<>>
        n == IF Truthy(searchParams["notword"])
             THEN <<(<<"-">> \o searchParams["notword"])>> ELSE <<>>
        searchTerms == w \o n
    IN  IF Len(searchTerms) > 0
        THEN <<"Syosetu Search: ">> \o
             (IF Len(searchTerms) = 2
              THEN searchTerms[1] \o <<" ">> \o searchTerms[2]
              ELSE searchTerms[1])
        ELSE <<"Syosetu Search">>

\* ---------------------------------------------------------------- searchUrl
SEP == ".syosetu.com/search/search/search.php?"
searchUrl(sub, query) == <<"https://">> \o sub \o <<SEP>> \o query

\* ------------------------------------------------------------------ inputs
\* The keys of a Syosetu search query, in the order the site writes them
QueryKeys ==
    <<"word", "notword", "type", "mintime", "maxtime", "minlen", "maxlen",
      "sasie", "iszankoku", "isbl", "isgl", "istensei", "istenni", "stop",
      "notzankoku", "notbl", "notgl", "nottensei", "nottenni", "title", "ex",
      "keyword", "wname", "order", "genre", "nocgenre">>

\* The values a key is given: always the empty value (the site writes
\* "key=" for a filter left unset) and at least one non-empty value
QueryValues(k) ==
    CASE k = "word" -> {EmptyStr, <<"foo">>}
      [] k = "notword" -> {EmptyStr, <<"bar">>}
      [] k = "nocgenre" ->
            {EmptyStr, R18Site_Nocturne, R18Site_MoonLight, R18Site_MoonLightBL,
             R18Site_Midnight, R18Site_MoonLight \o <<"-">> \o R18Site_MoonLightBL}
      [] k = "minlen" -> {EmptyStr, <<"30000">>}
      [] k = "type" -> {EmptyStr, <<"r">>}
      [] k = "order" -> {EmptyStr, <<"new">>}
      [] OTHER -> {EmptyStr, <<"1">>}

\* The query strings with at most n fields, on keys of index i and above
RECURSIVE QueriesFrom(_, _)
QueriesFrom(i, n) ==
    IF n = 0 \/ i > Len(QueryKeys) THEN {EmptyStr}
    ELSE QueriesFrom(i + 1, n)
         \cup {<<QueryKeys[i], "=">> \o v \o (IF rest = EmptyStr THEN rest ELSE <<"&">> \o rest) :
                  v \in QueryValues(QueryKeys[i]), rest \in QueriesFrom(i + 1, n - 1)}

\* the :query path parameter is never empty
MapQueries == QueriesFrom(1, MaxFields) \ {EmptyStr}
MapSubs == SyosetuSubs \cup {<<"zz">>}

\* The requests of the cache specification.  A path parameter is any text
\* once the router has decoded it, so a sub may carry SEP and a piece of a
\* query behind a subsite name.
SubAtoms == {SyosetuSub_NORMAL, SyosetuSub_NOCTURNE, <<"zz">>}
QueryAtoms == {<<"word", "=", "foo">>}
CacheSubs == SubAtoms \cup {a \o <<SEP>> \o q : a \in SubAtoms, q \in QueryAtoms}
CacheQueries == QueryAtoms \cup {q \o <<SEP>> \o r : q \in QueryAtoms, r \in QueryAtoms}

\* What the upstream answers to builder.execute(): one of two result lists
UpstreamResults == {"r1", "r2"}

\* ------------------------------------------------------------------- state
VARIABLES
    mpc,        \* mapping specification: position in the producer's body
    msub,       \* its sub
    mquery,     \* its query
    mparams,    \* searchParams, the caller's object
    mbuilder,   \* the builder made by createNovelSearchBuilder
    mtitle,     \* the title of the feed
    cache,      \* the cache store: a set of entries, at most one per key
    now,        \* the clock
    calls,      \* search requests started so far
    inflight,   \* handler invocations waiting for builder.execute()
    last,       \* history: what the most recently finished invocation did
    nconfig,    \* user-novels handler: the state of config.pixiv
    npc,        \* its position
    ntoken,     \* the token getToken gave
    nlisted,    \* how many novels getNovels listed, -1 before it returns
    nfetch,     \* per listed novel, the state of its content fetch
    nresult,    \* what the invocation gave its caller
    nlog        \* history: the network-facing calls started, in order

mapVars == <<mpc, msub, mquery, mparams, mbuilder, mtitle>>
cacheVars == <<cache, now, calls, inflight, last>>
novelVars == <<nconfig, npc, ntoken, nlisted, nfetch, nresult, nlog>>
vars == <<mapVars, cacheVars, novelVars>>

NoParams == [f \in SearchParamFields |-> Undefined]
NoBuilder == [kind |-> "none", params |-> NoParams]
NoFeed == [title |-> EmptyStr, link |-> EmptyStr, host |-> "none", item |-> "none"]
NoRequest == <<EmptyStr, EmptyStr>>
NoCall ==
    [id |-> 0, sub |-> EmptyStr, query |-> EmptyStr, key |-> EmptyStr, start |-> 0,
     entryExpiry |-> -1, entryValue |-> NoFeed, invoked |-> FALSE, executed |-> FALSE,
     outcome |-> "none", value |-> NoFeed, source |-> NoRequest]

\* ----------------------------------------------------------------- tryGet
CacheEntry(store, key) == CHOOSE e \in store : e.key = key
CacheHas(store, key) == \E e \in store : e.key = key
CacheLive(store, key, t) == \E e \in store : e.key = key /\ t < e.expiry
CacheSet(store, key, value, t, by) ==
    {e \in store : e.key # key}
        \cup {[key |-> key, value |-> value, expiry |-> t + TTL, by |-> by]}

\* ------------------------------------------------- the search route handler
\* the object the producer returns
SearchFeed(sub, query, result) ==
    [title |-> FeedTitle(mapToSearchParams(query)),
     link |-> searchUrl(sub, query),
     host |-> IF isGeneral(sub) THEN "ncode" ELSE "novel18",
     item |-> result]

\* what the invocation saw in the store when it started
Started(sub, query) ==
    LET key == searchUrl(sub, query)
    IN  [NoCall EXCEPT
            !.id = calls + 1, !.sub = sub, !.query = query, !.key = key, !.start = now,
            !.entryExpiry = IF CacheHas(cache, key) THEN CacheEntry(cache, key).expiry ELSE -1,
            !.entryValue = IF CacheHas(cache, key) THEN CacheEntry(cache, key).value ELSE NoFeed]

InitCache ==
    /\ cache = {}
    /\ now = 0
    /\ calls = 0
    /\ inflight = {}
    /\ last = NoCall

\* tryGet finds an unexpired entry: the stored value is returned
HandlerHitBypass(sub, query) ==
    /\ calls < MaxCalls
    /\ CacheLive(cache, searchUrl(sub, query), now)
    /\ createNovelSearchBuilder(sub, mapToSearchParams(query)).kind # "InvalidParameterError"
    /\ calls' = calls + 1
    /\ inflight' = inflight \cup
            {[Started(sub, query) EXCEPT !.invoked = TRUE, !.executed = TRUE]}
    /\ UNCHANGED <<cache, now, last>>

HandlerHit(sub, query) ==
    /\ calls < MaxCalls
    /\ CacheLive(cache, searchUrl(sub, query), now)
    /\ calls' = calls + 1
    /\ last' = [Started(sub, query) EXCEPT
                    !.outcome = "feed",
                    !.value = CacheEntry(cache, searchUrl(sub, query)).value,
                    !.source = CacheEntry(cache, searchUrl(sub, query)).by]
    /\ UNCHANGED <<cache, now, inflight>>

\* tryGet calls the producer, createNovelSearchBuilder throws
HandlerInvalid(sub, query) ==
    /\ calls < MaxCalls
    /\ ~CacheLive(cache, searchUrl(sub, query), now)
    /\ createNovelSearchBuilder(sub, mapToSearchParams(query)).kind = "InvalidParameterError"
    /\ calls' = calls + 1
    /\ last' = [Started(sub, query) EXCEPT
                    !.invoked = TRUE, !.outcome = "InvalidParameterError"]
    /\ UNCHANGED <<cache, now, inflight>>

\* tryGet calls the producer, which starts builder.execute() and waits
HandlerExecute(sub, query) ==
    /\ calls < MaxCalls
    /\ ~CacheLive(cache, searchUrl(sub, query), now)
    /\ createNovelSearchBuilder(sub, mapToSearchParams(query)).kind # "InvalidParameterError"
    /\ calls' = calls + 1
    /\ inflight' = inflight \cup
            {[Started(sub, query) EXCEPT !.invoked = TRUE, !.executed = TRUE]}
    /\ UNCHANGED <<cache, now, last>>

\* builder.execute() resolves: the feed is built, stored and returned
ExecuteResolves(c, result) ==
    /\ c \in inflight
    /\ LET feed == SearchFeed(c.sub, c.query, result)
       IN  /\ cache' = CacheSet(cache, c.key, feed, now, <<c.sub, c.query>>)
           /\ last' = [c EXCEPT !.outcome = "feed", !.value = feed,
                                !.source = <<c.sub, c.query>>]
    /\ inflight' = inflight \ {c}
    /\ UNCHANGED <<now, calls>>

\* builder.execute() rejects: the error leaves the handler
ExecuteRejectsSwallowed(c) ==
    /\ c \in inflight
    /\ LET feed == SearchFeed(c.sub, c.query, "none")
       IN  /\ cache' = CacheSet(cache, c.key, feed, now, <<c.sub, c.query>>)
           /\ last' = [c EXCEPT !.outcome = "UpstreamError"]
    /\ inflight' = inflight \ {c}
    /\ UNCHANGED <<now, calls>>

ExecuteRejects(c) ==
    /\ c \in inflight
    /\ last' = [c EXCEPT !.outcome = "UpstreamError"]
    /\ inflight' = inflight \ {c}
    /\ UNCHANGED <<cache, now, calls>>

Tick ==
    /\ now < MaxTime
    /\ now' = now + 1
    /\ UNCHANGED <<cache, calls, inflight, last>>

\* ------------------------------- the producer's body, without the upstream
InitMap ==
    /\ mpc = "start"
    /\ msub \in MapSubs
    /\ mquery \in MapQueries
    /\ mparams = NoParams
    /\ mbuilder = NoBuilder
    /\ mtitle = EmptyStr

MapParams ==
    /\ mpc = "start"
    /\ mparams' = mapToSearchParams(mquery)
    /\ mpc' = "mapped"
    /\ UNCHANGED <<msub, mquery, mbuilder, mtitle>>

CreateBuilder ==
    /\ mpc = "mapped"
    /\ LET b == createNovelSearchBuilder(msub, mparams)
       IN  /\ mbuilder' = [kind |-> b.kind, params |-> b.params]
           /\ mparams' = b.caller
           /\ mpc' = IF b.kind = "InvalidParameterError" THEN "failed" ELSE "built"
    /\ UNCHANGED <<msub, mquery, mtitle>>

BuildTitle ==
    /\ mpc = "built"
    /\ mtitle' = FeedTitle(mparams)
    /\ mpc' = "returned"
    /\ UNCHANGED <<msub, mquery, mparams, mbuilder>>

\* -------------------------------------------------- the user-novels handler
\* response.data.novels: n novels, told apart by their ids
NovelId(i) == 100 + i
Listing(n) == [i \in 1..n |-> NovelId(i)]
\* what parseNovelContent gives for the content fetched for novel id
ContentOf(id) == <<"content", id>>

NoResult == [kind |-> "none", novel |-> 0, item |-> <<>>]
Failure(kind, novel) == [kind |-> kind, novel |-> novel, item |-> <<>>]
Pending == [status |-> "pending", content |-> <<>>]

\* items, in the order of novelsWithContent
NovelItems(fetch) ==
    [i \in 1..Len(fetch) |-> [novel |-> NovelId(i), content |-> fetch[i].content]]
AllFulfilled(fetch) == \A i \in 1..Len(fetch) : fetch[i].status = "ok"

InitNovels ==
    /\ nconfig \in {"absent", "noRefreshToken", "ok"}
    /\ npc = "start"
    /\ ntoken = EmptyStr
    /\ nlisted = -1
    /\ nfetch = <<>>
    /\ nresult = NoResult
    /\ nlog = <<>>

\* the configuration check, then getToken is called
NovelsStartNoCheck ==
    /\ npc = "start"
    /\ npc' = "getToken"
    /\ nlog' = Append(nlog, "getToken")
    /\ UNCHANGED <<nconfig, ntoken, nlisted, nfetch, nresult>>

NovelsStart ==
    /\ npc = "start"
    /\ IF nconfig # "ok"
       THEN /\ nresult' = Failure("ConfigNotFoundError", 0)
            /\ npc' = "done"
            /\ UNCHANGED nlog
       ELSE /\ npc' = "getToken"
            /\ nlog' = Append(nlog, "getToken")
            /\ UNCHANGED nresult
    /\ UNCHANGED <<nconfig, ntoken, nlisted, nfetch>>

\* getToken resolves; with a token getNovels is called
GetTokenResolves(token) ==
    /\ npc = "getToken"
    /\ ntoken' = token
    /\ IF token = EmptyStr
       THEN /\ nresult' = Failure("ConfigNotFoundError", 0)
            /\ npc' = "done"
            /\ UNCHANGED nlog
       ELSE /\ npc' = "getNovels"
            /\ nlog' = Append(nlog, "getNovels")
            /\ UNCHANGED nresult
    /\ UNCHANGED <<nconfig, nlisted, nfetch>>

GetTokenRejects ==
    /\ npc = "getToken"
    /\ nresult' = Failure("UpstreamError", 0)
    /\ npc' = "done"
    /\ UNCHANGED <<nconfig, ntoken, nlisted, nfetch, nlog>>

\* getNovels resolves with n novels: novels[0].user.name is read, then the
\* callback of novels.map starts one getNovelContent per novel
GetNovelsResolves(n) ==
    /\ npc = "getNovels"
    /\ nlisted' = n
    /\ IF n = 0
       THEN /\ nresult' = Failure("TypeError", 0)
            /\ npc' = "done"
            /\ UNCHANGED <<nfetch, nlog>>
       ELSE /\ nfetch' = [i \in 1..n |-> Pending]
            /\ nlog' = nlog \o [i \in 1..n |-> "getNovelContent"]
            /\ npc' = "fetching"
            /\ UNCHANGED nresult
    /\ UNCHANGED <<nconfig, ntoken>>

GetNovelsRejects ==
    /\ npc = "getNovels"
    /\ nresult' = Failure("UpstreamError", 0)
    /\ npc' = "done"
    /\ UNCHANGED <<nconfig, ntoken, nlisted, nfetch, nlog>>

\* the content of novel i arrives and parses; Promise.all resolves with the
\* last one and the feed is returned
ContentResolves(i) ==
    /\ i \in 1..Len(nfetch)
    /\ nfetch[i].status = "pending"
    /\ LET fetch == [nfetch EXCEPT ![i].status = "ok", ![i].content = ContentOf(NovelId(i))]
       IN  /\ nfetch' = fetch
           /\ IF npc = "fetching" /\ AllFulfilled(fetch)
              THEN /\ nresult' = [kind |-> "feed", novel |-> 0, item |-> NovelItems(fetch)]
                   /\ npc' = "done"
              ELSE UNCHANGED <<nresult, npc>>
    /\ UNCHANGED <<nconfig, ntoken, nlisted, nlog>>

\* getNovelContent rejects or parseNovelContent throws for novel i: the
\* callback rethrows, Promise.all rejects with the first such error
ContentFailsTolerated(i, why) ==
    /\ i \in 1..Len(nfetch)
    /\ nfetch[i].status = "pending"
    /\ LET fetch == [nfetch EXCEPT ![i].status = why]
           done == {j \in 1..Len(fetch) : fetch[j].status = "ok"}
       IN  /\ nfetch' = fetch
           /\ IF npc = "fetching" /\ \A j \in 1..Len(fetch) : fetch[j].status # "pending"
              THEN /\ nresult' = [kind |-> "feed", novel |-> 0,
                                  item |-> SelectSeq(NovelItems(fetch),
                                                     LAMBDA it : it.content # <<>>)]
                   /\ npc' = "done"
              ELSE UNCHANGED <<nresult, npc>>
    /\ UNCHANGED <<nconfig, ntoken, nlisted, nlog>>

ContentFails(i, why) ==
    /\ i \in 1..Len(nfetch)
    /\ nfetch[i].status = "pending"
    /\ nfetch' = [nfetch EXCEPT ![i].status = why]
    /\ IF npc = "fetching"
       THEN /\ nresult' = Failure("Error", NovelId(i))
            /\ npc' = "done"
       ELSE UNCHANGED <<nresult, npc>>
    /\ UNCHANGED <<nconfig, ntoken, nlisted, nlog>>

\* --------------------------------------------------------- specifications
MapIdle ==
    /\ mpc = "idle" /\ msub = EmptyStr /\ mquery = EmptyStr
    /\ mparams = NoParams /\ mbuilder = NoBuilder /\ mtitle = EmptyStr

NovelsIdle ==
    /\ nconfig = "ok" /\ npc = "idle" /\ ntoken = EmptyStr /\ nlisted = -1
    /\ nfetch = <<>> /\ nresult = NoResult /\ nlog = <<>>

Init == InitCache /\ MapIdle /\ NovelsIdle

Next ==
    \/ \E sub \in CacheSubs, query \in CacheQueries : HandlerHit(sub, query) /\ UNCHANGED <<mapVars, novelVars>>
    \/ \E sub \in CacheSubs, query \in CacheQueries : HandlerInvalid(sub, query) /\ UNCHANGED <<mapVars, novelVars>>
    \/ \E sub \in CacheSubs, query \in CacheQueries : HandlerExecute(sub, query) /\ UNCHANGED <<mapVars, novelVars>>
    \/ \E c \in inflight, result \in UpstreamResults : ExecuteResolves(c, result) /\ UNCHANGED <<mapVars, novelVars>>
    \/ \E c \in inflight : ExecuteRejects(c) /\ UNCHANGED <<mapVars, novelVars>>
    \/ Tick /\ UNCHANGED <<mapVars, novelVars>>

Spec == Init /\ [][Next]_vars

NextMap ==
    \/ MapParams /\ UNCHANGED <<cacheVars, novelVars>>
    \/ CreateBuilder /\ UNCHANGED <<cacheVars, novelVars>>
    \/ BuildTitle /\ UNCHANGED <<cacheVars, novelVars>>

MapInit == InitMap /\ InitCache /\ NovelsIdle

SpecMap == MapInit /\ [][NextMap]_vars

NextNovels ==
    \/ NovelsStart /\ UNCHANGED <<mapVars, cacheVars>>
    \/ \E token \in {EmptyStr, <<"token">>} : GetTokenResolves(token) /\ UNCHANGED <<mapVars, cacheVars>>
    \/ GetTokenRejects /\ UNCHANGED <<mapVars, cacheVars>>
    \/ \E n \in 0..MaxNovels : GetNovelsResolves(n) /\ UNCHANGED <<mapVars, cacheVars>>
    \/ GetNovelsRejects /\ UNCHANGED <<mapVars, cacheVars>>
    \/ \E i \in 1..MaxNovels : ContentResolves(i) /\ UNCHANGED <<mapVars, cacheVars>>
    \/ \E i \in 1..MaxNovels, why \in {"fetchFailed", "parseFailed"} :
            ContentFails(i, why) /\ UNCHANGED <<mapVars, cacheVars>>

NovelsInit == InitNovels /\ InitCache /\ MapIdle

SpecNovels == NovelsInit /\ [][NextNovels]_vars

\* ------------------------------------------------------------- properties
\* What a query string says about key k, read off its tokens: the text
\* between "k=" and the next "&", empty when the key is absent
FieldValue(query, k) ==
    LET at(i) == /\ query[i] = k
                 /\ (i = 1 \/ query[i - 1] = "&")
                 /\ i < Len(query) /\ query[i + 1] = "="
    IN  IF \E i \in 1..Len(query) : at(i)
        THEN LET i == CHOOSE i \in 1..Len(query) : at(i)
                 stops == {j \in (i + 2)..Len(query) : query[j] = "&"} \cup {Len(query) + 1}
                 j == CHOOSE j \in stops : \A m \in stops : j <= m
             IN  SubSeq(query, i + 2, j - 1)
        ELSE EmptyStr

LeftUnset(query, f) ==
    IF f = "time"
    THEN FieldValue(query, "mintime") = EmptyStr /\ FieldValue(query, "maxtime") = EmptyStr
    ELSE FieldValue(query, f) = EmptyStr

Range(seq) == {seq[i] : i \in 1..Len(seq)}

LiveAtStart(c) == c.entryExpiry # -1 /\ c.start < c.entryExpiry

\* C1: a search request invokes the producer exactly when the store held no
\* unexpired entry for its key when it started; a request that found an
\* unexpired entry returns the stored value, which is the value the request
\* that wrote the entry returned, and that entry lives for TTL from the write.
C1_ProducerIffNoLiveEntry ==
    /\ [](\A c \in inflight \cup {last} :
            c.id > 0 =>
                /\ c.invoked <=> ~LiveAtStart(c)
                /\ (c \notin inflight /\ LiveAtStart(c)) =>
                        (c.outcome = "feed" /\ c.value = c.entryValue /\ ~c.executed))
    /\ [][(last' # last /\ last'.invoked /\ last'.outcome = "feed") =>
            /\ CacheHas(cache', last'.key)
            /\ CacheEntry(cache', last'.key).value = last'.value
            /\ CacheEntry(cache', last'.key).expiry = now + TTL]_vars

C1_Witness ==
    /\ last.id = 2 /\ ~last.invoked /\ last.outcome = "feed"
    /\ last.start > 0 /\ last.value.item = "r2"

\* C2: when the producer fails, by InvalidParameterError or by a failed
\* builder.execute(), the error reaches the handler's caller, no feed is
\* returned and the store is exactly what it was.
C2_FailureLeavesStore ==
    [][(last' # last /\ last'.outcome \in {"InvalidParameterError", "UpstreamError"}) =>
            (cache' = cache /\ last'.invoked /\ last'.value = NoFeed)]_vars

C2_Witness ==
    /\ last.id = 2 /\ last.outcome = "UpstreamError" /\ last.entryExpiry = -1
    /\ cache = {}

\* C3: requests with different (sub, query) have different cache keys, and a
\* feed returned for (sub, query) was produced for that same (sub, query).
C3_KeysNeverCollide ==
    /\ \A e \in cache : e.by # <<last.sub, last.query>> => e.key # last.key
    /\ last.outcome = "feed" => last.source = <<last.sub, last.query>>

\* C4: a request whose sub is none of yomou, noc, mnlt, mid fails with
\* InvalidParameterError, starts no builder.execute() and returns no feed.
C4_InvalidSubFails ==
    /\ \A c \in inflight : c.sub \in SyosetuSubs
    /\ (last.id > 0 /\ last.sub \notin SyosetuSubs) =>
            /\ last.outcome = "InvalidParameterError"
            /\ ~last.executed
            /\ last.value = NoFeed

\* C5: once a content fetch of the batch has failed, the invocation has
\* failed with an Error naming a novel whose fetch failed and has returned no
\* items; a feed is returned only when no fetch failed; each listed novel's
\* content is requested once.
C5_BatchFailsAsWhole ==
    LET failed == {i \in 1..Len(nfetch) : nfetch[i].status \in {"fetchFailed", "parseFailed"}}
    IN  /\ failed # {} =>
                /\ npc = "done"
                /\ nresult.kind = "Error"
                /\ nresult.novel \in {NovelId(i) : i \in failed}
                /\ nresult.item = <<>>
        /\ nresult.kind = "feed" => failed = {}
        /\ Cardinality({i \in 1..Len(nlog) : nlog[i] = "getNovelContent"}) = Len(nfetch)

C5_Witness ==
    /\ Len(nfetch) >= 2
    /\ \E i, j \in 1..Len(nfetch) :
            /\ nfetch[i].status = "ok" /\ nfetch[j].status = "parseFailed"
            /\ nresult = Failure("Error", NovelId(j))

\* C6: a filter the query string leaves unset (key absent, or present with
\* an empty value) is undefined in the mapped SearchParams.
C6_UnsetFilterOmitted ==
    mpc # "start" =>
        \A f \in DirectFields \cup {"time"} :
            LeftUnset(mquery, f) => mparams[f] = Undefined

\* C7: without config.pixiv or its refresh token the invocation fails with
\* ConfigNotFoundError and no network-facing call was started; getNovels is
\* started only with a non-empty token, getNovelContent only after getNovels
\* has returned.
C7_ConfigBeforeNetwork ==
    /\ nconfig # "ok" => nlog = <<>>
    /\ (nconfig # "ok" /\ npc # "start") =>
            (npc = "done" /\ nresult = Failure("ConfigNotFoundError", 0))
    /\ "getNovels" \in Range(nlog) => (ntoken # EmptyStr /\ nlog[1] = "getToken")
    /\ "getNovelContent" \in Range(nlog) => (nlisted >= 1 /\ nlog[2] = "getNovels")

C7_Witness ==
    /\ nconfig = "noRefreshToken" /\ npc = "done"
    /\ nresult.kind = "ConfigNotFoundError" /\ nlog = <<>>

C9_NocgenreWithinSub ==
    mpc \in {"built", "returned"} =>
        /\ mparams = mapToSearchParams(mquery)
        /\ msub = SyosetuSub_NORMAL => mbuilder.kind = "SearchBuilder"
        /\ msub # SyosetuSub_NORMAL => mbuilder.kind = "SearchBuilderR18"
        /\ msub = SyosetuSub_NOCTURNE => mbuilder.params["nocgenre"] = R18Site_Nocturne
        /\ msub = SyosetuSub_MIDNIGHT => mbuilder.params["nocgenre"] = R18Site_Midnight
        /\ msub = SyosetuSub_MOONLIGHT =>
                mbuilder.params["nocgenre"] \in
                    {R18Site_MoonLight, R18Site_MoonLightBL,
                     R18Site_MoonLight \o <<"-">> \o R18Site_MoonLightBL}

\* C10: with the configuration present, a token, a listing of N novels and
\* all N content fetches fulfilled, the invocation has returned a feed of N
\* items, the i-th made of the i-th listed novel and that novel's content.
C10_AllSucceedGivesFeed ==
    (/\ nconfig = "ok" /\ ntoken # EmptyStr /\ nlisted >= 0
     /\ Len(nfetch) = nlisted /\ AllFulfilled(nfetch)) =>
        /\ nresult.kind = "feed"
        /\ Len(nresult.item) = nlisted
        /\ \A i \in 1..nlisted :
                nresult.item[i] = [novel |-> Listing(nlisted)[i],
                                   content |-> ContentOf(Listing(nlisted)[i])]

====
